---- MODULE Spec2Model ----
(***************************************************************************)
(* Model of search_releases.py: the operator -> product release search.    *)
(* Text is a sequence of one-character strings; a file is a record with    *)
(* an `exists' flag and its lines (without the line terminator); a table   *)
(* (DataFrame) is a sequence of rows, and a selection of a table is the    *)
(* sequence of the row labels (positions in df) it keeps.                  *)
(***************************************************************************)
EXTENDS Integers, Sequences, FiniteSets, TLC

(***************************************************************************)
(* Text primitives (Python str / re semantics)                             *)
(***************************************************************************)
Upper == <<"A", "B", "C", "D", "E", "F", "G", "H", "I", "J", "K", "L", "M",
           "N", "O", "P", "Q", "R", "S", "T", "U", "V", "W", "X", "Y", "Z">>

Lower == <<"a", "b", "c", "d", "e", "f", "g", "h", "i", "j", "k", "l", "m",
           "n", "o", "p", "q", "r", "s", "t", "u", "v", "w", "x", "y", "z">>

Digits == <<"0", "1", "2", "3", "4", "5", "6", "7", "8", "9">>

\* the characters of the model in code point order
Alphabet == <<"\t", " ", "-", ".", "/">> \o Digits \o <<":">> \o Upper \o Lower

Ord == [c \in {Alphabet[k] : k \in 1..Len(Alphabet)} |->
          CHOOSE k \in 1..Len(Alphabet) : Alphabet[k] = c]

LowerOf == [c \in DOMAIN Ord |->
              IF \E k \in 1..26 : Upper[k] = c
              THEN Lower[CHOOSE k \in 1..26 : Upper[k] = c] ELSE c]

UpperOf == [c \in DOMAIN Ord |->
              IF \E k \in 1..26 : Lower[k] = c
              THEN Upper[CHOOSE k \in 1..26 : Lower[k] = c] ELSE c]

\* str.lower()
lower(s) == [k \in 1..Len(s) |-> LowerOf[s[k]]]

\* str.upper()
upper(s) == [k \in 1..Len(s) |-> UpperOf[s[k]]]

IsSpace(c) == c \in {" ", "\t"}

IsDigit(c) == \E k \in 1..10 : Digits[k] = c

\* number of leading characters of s that satisfy the class test
RECURSIVE SpanSpace(_)
SpanSpace(s) == IF s # << >> /\ IsSpace(Head(s)) THEN 1 + SpanSpace(Tail(s)) ELSE 0

RECURSIVE SpanDigit(_)
SpanDigit(s) == IF s # << >> /\ IsDigit(Head(s)) THEN 1 + SpanDigit(Tail(s)) ELSE 0

Reverse(s) == [k \in 1..Len(s) |-> s[Len(s) + 1 - k]]

\* str.strip()
strip(s) ==
    LET a == SpanSpace(s)
        b == SpanSpace(Reverse(s))
    IN  IF a = Len(s) THEN << >> ELSE SubSeq(s, a + 1, Len(s) - b)

\* str.startswith(prefix)
startswith(s, prefix) ==
    Len(prefix) <= Len(s) /\ SubSeq(s, 1, Len(prefix)) = prefix

\* line.split('\t'): the fields between tabs, empty fields kept
RECURSIVE SplitTab(_, _)
SplitTab(s, cur) ==
    IF s = << >> THEN <<cur>>
    ELSE IF Head(s) = "\t" THEN <<cur>> \o SplitTab(Tail(s), << >>)
    ELSE SplitTab(Tail(s), Append(cur, Head(s)))

\* line.split(): the maximal runs of non-whitespace characters
RECURSIVE SplitWs(_, _)
SplitWs(s, cur) ==
    IF s = << >> THEN (IF cur = << >> THEN << >> ELSE <<cur>>)
    ELSE IF IsSpace(Head(s))
         THEN (IF cur = << >> THEN << >> ELSE <<cur>>) \o SplitWs(Tail(s), << >>)
    ELSE SplitWs(Tail(s), Append(cur, Head(s)))

\* re.sub(r'^\d+\.\s*', '', s)
StripEnumPrefix(s) ==
    LET d == SpanDigit(s)
    IN  IF d >= 1 /\ d < Len(s) /\ s[d + 1] = "."
        THEN LET rest == SubSeq(s, d + 2, Len(s))
             IN  SubSeq(rest, SpanSpace(rest) + 1, Len(rest))
        ELSE s

\* literal substring test (the pattern is re.escape'd)
Contains(hay, needle) ==
    \E k \in 0..(Len(hay) - Len(needle)) :
        \A j \in 1..Len(needle) : hay[k + j] = needle[j]

\* Series.str.contains(re.escape(term), case=False)
ContainsCI(hay, needle) == Contains(lower(hay), lower(needle))

\* Python's ordering of str
RECURSIVE StrLess(_, _)
StrLess(a, b) ==
    IF b = << >> THEN FALSE
    ELSE IF a = << >> THEN TRUE
    ELSE IF Head(a) = Head(b) THEN StrLess(Tail(a), Tail(b))
    ELSE Ord[Head(a)] < Ord[Head(b)]

(***************************************************************************)
(* The table (pandas DataFrame) and its cells                              *)
(***************************************************************************)
\* an empty text cell of the CSV (read_csv yields NaN)
NaN == <<"NaN">>

\* Series.astype(str): NaN becomes the text "nan"
astype_str(cell) == IF cell = NaN THEN <<"n", "a", "n">> ELSE cell

\* a GA date cell: a well-formed date (as a day number), an empty cell, or
\* text that is not a date
DateCell(d) == [kind |-> "date", day |-> d]
EmptyDate == [kind |-> "nan", day |-> 0]
BadDate == [kind |-> "text", day |-> 0]

\* pd.to_datetime on one value: a Timestamp, or NaT for an empty cell
NaT == [kind |-> "nan", day |-> 0]
to_datetime(cell) == IF cell.kind = "date" THEN cell ELSE NaT

\* pd.to_datetime(column) raises (errors='raise') when a cell holds text
\* that is not a date
to_datetime_raises(df, sel) ==
    \E k \in 1..Len(sel) : df[sel[k]].GA_date.kind = "text"

\* date.today()
today == 10

RedHatQuay == <<"R", "e", "d", " ", "H", "a", "t", " ", "Q", "u", "a", "y">>

ProjectQuay == <<"P", "r", "o", "j", "e", "c", "t", " ", "Q", "u", "a", "y">>

Row(product, release, gadate, link) ==
    [BU |-> <<"T", "e", "l", "c", "o">>,
     Product |-> product,
     Release |-> release,
     Release_shortname |-> <<"q", "u", "a", "y", "-", "3">>,
     Release_ID |-> <<"R", "H", "Q">>,
     GA_name |-> <<"G", "A">>,
     GA_date |-> gadate,
     Link |-> link,
     Maintainers |-> NaN]

Quay314 == <<"Q", "u", "a", "y", " ", "3", ".", "1", "4">>
Quay315 == <<"Q", "u", "a", "y", " ", "3", ".", "1", "5">>
Quay316 == <<"Q", "u", "a", "y", " ", "3", ".", "1", "6">>
Quay317 == <<"Q", "u", "a", "y", " ", "3", ".", "1", "7">>

\* the rows a table is drawn from, in file order
MasterTable ==
    << Row(RedHatQuay, Quay315, DateCell(5), <<"a">>),
       Row(RedHatQuay, Quay315, DateCell(15), <<"a">>),
       Row(RedHatQuay, Quay315, DateCell(12), <<"a">>),
       Row(RedHatQuay, Quay315, DateCell(12), <<"b">>),
       Row(RedHatQuay, Quay316, DateCell(10), <<"a">>),
       Row(RedHatQuay, Quay316, EmptyDate, <<"a">>),
       Row(RedHatQuay, Quay317, BadDate, <<"a">>),
       Row(ProjectQuay, Quay314, DateCell(12), <<"a">>) >>

\* the elements of s at the positions in keep, in order
RECURSIVE PickAt(_, _, _)
PickAt(s, keep, k) ==
    IF k > Len(s) THEN << >>
    ELSE (IF k \in keep THEN <<s[k]>> ELSE << >>) \o PickAt(s, keep, k + 1)

\* the tables of at most n rows: the selections of MasterTable
Tables(n) ==
    { PickAt(MasterTable, keep, 1) :
        keep \in { S \in SUBSET (1..Len(MasterTable)) : Cardinality(S) <= n } }

(***************************************************************************)
(* DataFrame operations; a selection is a sequence of row labels of df     *)
(***************************************************************************)
\* df[df[col].astype(str).str.contains(re.escape(term), case=False, na=False)]
RowsContaining(df, sel, col, term) ==
    PickAt(sel, { k \in 1..Len(sel) :
                    ContainsCI(astype_str(df[sel[k]][col]), term) }, 1)

\* DataFrame.drop_duplicates(): the first of the rows with equal values stays
drop_duplicates(df, sel) ==
    PickAt(sel, { k \in 1..Len(sel) :
                    \A j \in 1..(k - 1) : df[sel[j]] # df[sel[k]] }, 1)

AllRows(df) == [k \in 1..Len(df) |-> k]

search_columns ==
    <<"Product", "Release", "Release_shortname", "Release_ID", "GA_name">>

RECURSIVE ScanColumns(_, _, _, _)
ScanColumns(df, cols, product_name, matches) ==
    IF cols = << >> THEN matches
    ELSE LET col_matches == RowsContaining(df, AllRows(df), Head(cols), product_name)
         IN  ScanColumns(df, Tail(cols), product_name,
                         drop_duplicates(df, matches \o col_matches))

search_by_product(df, product_name, release_name) ==
    IF product_name = << >> THEN << >>
    ELSE LET release_matches ==
                 IF release_name # << >>
                 THEN RowsContaining(df, AllRows(df), "Release", release_name)
                 ELSE << >>
         IN  IF release_matches # << >> THEN release_matches
             ELSE ScanColumns(df, search_columns, product_name, << >>)

\* a temporal filter that also keeps the releases of today
filter_future_releases_inclusive(df, matches) ==
    PickAt(matches, { k \in 1..Len(matches) :
                        LET d == to_datetime(df[matches[k]].GA_date)
                        IN  d.kind = "date" /\ d.day >= today }, 1)

\* matches[matches['GA date'].dt.date > today]; NaT compares False
filter_future_releases(df, matches) ==
    PickAt(matches, { k \in 1..Len(matches) :
                        LET d == to_datetime(df[matches[k]].GA_date)
                        IN  d.kind = "date" /\ d.day > today }, 1)

\* a version filter that applies a token of the map to every product
filter_by_version_any_product(df, matches, product_name, version_map) ==
    IF matches = << >> \/ DOMAIN version_map = {}
    THEN matches
    ELSE RowsContaining(df, matches, "Release",
                        version_map[CHOOSE key \in DOMAIN version_map :
                                       product_name \in DOMAIN version_map => key = product_name])

\* version_map is a function from product names to version tokens
filter_by_version(df, matches, product_name, version_map) ==
    IF matches = << >> \/ DOMAIN version_map = {} \/ product_name \notin DOMAIN version_map
    THEN matches
    ELSE RowsContaining(df, matches, "Release", version_map[product_name])

\* the keys of groupby('Release'): distinct non-NaN values, sorted
ReleaseKeys(df, sel) ==
    LET vals == { df[sel[k]].Release : k \in 1..Len(sel) } \ {NaN}
        asSeq == CHOOSE s \in [1..Cardinality(vals) -> vals] :
                    \A v \in vals : \E k \in 1..Cardinality(vals) : s[k] = v
    IN  SortSeq(asSeq, StrLess)

\* an idxmin that returns the last of the rows holding the smallest date
idxmin_last(df, group) ==
    LET dated == { k \in 1..Len(group) : to_datetime(df[group[k]].GA_date).kind = "date" }
    IN  IF dated = {} THEN 0
        ELSE LET best == CHOOSE k \in dated :
                            \A j \in dated :
                               \/ df[group[k]].GA_date.day < df[group[j]].GA_date.day
                               \/ /\ df[group[k]].GA_date.day = df[group[j]].GA_date.day
                                  /\ k >= j
             IN  group[best]

\* Series.idxmin() of the GA dates of one group: the label of the first row
\* holding the smallest date, NaT skipped; 0 stands for the NaN it returns
\* when the group has no date at all
idxmin(df, group) ==
    LET dated == { k \in 1..Len(group) : to_datetime(df[group[k]].GA_date).kind = "date" }
    IN  IF dated = {} THEN 0
        ELSE LET best == CHOOSE k \in dated :
                            \A j \in dated :
                               \/ df[group[k]].GA_date.day < df[group[j]].GA_date.day
                               \/ /\ df[group[k]].GA_date.day = df[group[j]].GA_date.day
                                  /\ k <= j
             IN  group[best]

\* a deduplication that keeps every dated row
groupby_idxmin_keep_all(df, sel) ==
    PickAt(sel, { k \in 1..Len(sel) : df[sel[k]].GA_date.kind = "date" }, 1)

\* matches.groupby('Release')['GA date'].idxmin(): one label per key
groupby_idxmin(df, sel) ==
    LET keys == ReleaseKeys(df, sel)
    IN  [k \in 1..Len(keys) |->
           idxmin(df, PickAt(sel, { j \in 1..Len(sel) : df[sel[j]].Release = keys[k] }, 1))]

\* frame.loc[labels] raises KeyError when a label is NaN
loc_raises(labels) == \E k \in 1..Len(labels) : labels[k] = 0

(***************************************************************************)
(* Input files                                                             *)
(***************************************************************************)
File(lines) == [exists |-> TRUE, lines |-> lines]
NoFile == [exists |-> FALSE, lines |-> << >>]

\* [line.strip() for line in f if line.strip()]
StrippedLines(file) ==
    LET stripped == [k \in 1..Len(file.lines) |-> strip(file.lines[k])]
    IN  PickAt(stripped, { k \in 1..Len(stripped) : stripped[k] # << >> }, 1)

OCP == <<"R", "e", "d", " ", "H", "a", "t", " ", "O", "p", "e", "n", "S", "h", "i", "f", "t", " ",
         "C", "o", "n", "t", "a", "i", "n", "e", "r", " ", "P", "l", "a", "t", "f", "o", "r", "m">>
ACM == <<"R", "e", "d", " ", "H", "a", "t", " ", "A", "d", "v", "a", "n", "c", "e", "d", " ",
         "C", "l", "u", "s", "t", "e", "r", " ", "M", "a", "n", "a", "g", "e", "m", "e", "n", "t", " ",
         "f", "o", "r", " ", "K", "u", "b", "e", "r", "n", "e", "t", "e", "s">>
ODF == <<"R", "e", "d", " ", "H", "a", "t", " ", "O", "p", "e", "n", "S", "h", "i", "f", "t", " ",
         "D", "a", "t", "a", " ", "F", "o", "u", "n", "d", "a", "t", "i", "o", "n">>

\* dict item assignment
SetItem(map, key, value) == (key :> value) @@ map

RECURSIVE ReferenceLoop(_, _)
ReferenceLoop(lines, version_map) ==
    IF lines = << >> THEN version_map
    ELSE LET parts == SplitWs(Head(lines), << >>)
             product_abbr == upper(parts[1])
             version == parts[2]
             next ==
                 IF Len(parts) < 2 THEN version_map
                 ELSE IF product_abbr = <<"O", "C", "P">> THEN SetItem(version_map, OCP, version)
                 ELSE IF product_abbr = <<"A", "C", "M">> THEN SetItem(version_map, ACM, version)
                 ELSE IF product_abbr = <<"Q", "U", "A", "Y">>
                      THEN SetItem(version_map, RedHatQuay, version)
                 ELSE IF product_abbr = <<"O", "D", "F">> THEN SetItem(version_map, ODF, version)
                 ELSE version_map
         IN  ReferenceLoop(Tail(lines), next)

load_reference_versions(reference_file) ==
    IF ~reference_file.exists THEN << >>
    ELSE ReferenceLoop(StrippedLines(reference_file), << >>)

\* the body of the loop of load_search_items after the header test: the
\* items (none or one) a line adds
ParseLine(line) ==
    LET parts == SplitTab(line, << >>)
        operator == StripEnumPrefix(strip(parts[1]))
    IN  IF Len(parts) >= 3
        THEN LET product == strip(parts[2])
                 release_name == strip(parts[3])
             IN  IF operator # << >> /\ product # << >> /\ release_name # << >>
                 THEN << <<operator, product, release_name>> >> ELSE << >>
        ELSE IF Len(parts) >= 2
        THEN LET product == strip(parts[2])
             IN  IF operator # << >> /\ product # << >>
                 THEN << <<operator, product, << >> >> >> ELSE << >>
        ELSE IF operator # << >> THEN << <<operator, << >>, << >> >> >> ELSE << >>

Operator == <<"O", "p", "e", "r", "a", "t", "o", "r">>

\* a header test that forgets the line number
IsHeaderAnyLine(i, line) == startswith(line, Operator)

\* line 141: the test that skips the header
IsHeader(i, line) == i = 0 /\ startswith(line, Operator)

\* sequences over pool of length at most n
SeqsUpTo(pool, n) == UNION { [1..k -> pool] : k \in 0..n }

(***************************************************************************)
(* format_results_by_product: grouping, matching, filtering                *)
(***************************************************************************)
\* position of product among the keys of the OrderedDict, 0 if absent
KeyIndex(groups, product) ==
    IF \E k \in 1..Len(groups) : groups[k][1] = product
    THEN CHOOSE k \in 1..Len(groups) : groups[k][1] = product
    ELSE 0

\* a grouping that moves a product seen again to the end of the dict
RECURSIVE GroupLoopMoveToEnd(_, _)
GroupLoopMoveToEnd(pairs, groups) ==
    IF pairs = << >> THEN groups
    ELSE LET operator == Head(pairs)[1]
             product == Head(pairs)[2]
             release_name == Head(pairs)[3]
             at == KeyIndex(groups, product)
             old == IF at = 0 THEN << >> ELSE groups[at][2]
             others == PickAt(groups, (1..Len(groups)) \ {at}, 1)
             next == IF product # << >>
                     THEN Append(others, <<product, Append(old, <<operator, release_name>>)>>)
                     ELSE groups
         IN  GroupLoopMoveToEnd(Tail(pairs), next)

\* lines 236-247: an OrderedDict is the sequence of its <<key, value>> pairs
RECURSIVE GroupLoop(_, _)
GroupLoop(pairs, groups) ==
    IF pairs = << >> THEN groups
    ELSE LET operator == Head(pairs)[1]
             product == Head(pairs)[2]
             release_name == Head(pairs)[3]
             withKey == IF KeyIndex(groups, product) = 0
                        THEN Append(groups, <<product, << >> >>) ELSE groups
             at == KeyIndex(withKey, product)
             next == IF product # << >>
                     THEN [withKey EXCEPT ![at][2] = Append(@, <<operator, release_name>>)]
                     ELSE groups
         IN  GroupLoop(Tail(pairs), next)

\* lines 257-264: the union of the matches of the operators of one product
RECURSIVE MatchLoop(_, _, _, _)
MatchLoop(df, product, operator_tuples, all_matches) ==
    IF operator_tuples = << >> THEN all_matches
    ELSE LET operator_matches == search_by_product(df, product, Head(operator_tuples)[2])
             next == IF operator_matches # << >>
                     THEN drop_duplicates(df, all_matches \o operator_matches)
                     ELSE all_matches
         IN  MatchLoop(df, product, Tail(operator_tuples), next)

\* an operator list that names each operator of the group once
OperatorsOfUnique(operator_tuples) ==
    PickAt([k \in 1..Len(operator_tuples) |-> operator_tuples[k][1]],
           { k \in 1..Len(operator_tuples) :
               \A j \in 1..(k - 1) : operator_tuples[j][1] # operator_tuples[k][1] }, 1)

OperatorsOf(operator_tuples) ==
    [k \in 1..Len(operator_tuples) |-> operator_tuples[k][1]]

\* lines 266-290: the filters of one product group; `raises' tells that an
\* exception left the function, the other fields are the locals
FilterGroup(df, product, all_matches, version_map, show_all, prev_future_only) ==
    LET matches == IF all_matches # << >> /\ DOMAIN version_map # {}
                   THEN filter_by_version(df, all_matches, product, version_map)
                   ELSE all_matches
        labels == groupby_idxmin(df, matches)
        future_only == IF matches # << >> /\ ~show_all /\ ~to_datetime_raises(df, matches)
                       THEN filter_future_releases(df, matches)
                       ELSE prev_future_only
    IN  IF matches = << >>
        THEN [raises |-> FALSE, matches |-> matches, future_only |-> future_only,
              future_matches |-> << >>]
        ELSE IF to_datetime_raises(df, matches)
        THEN [raises |-> TRUE, matches |-> matches, future_only |-> future_only,
              future_matches |-> << >>]
        ELSE IF show_all
        THEN [raises |-> loc_raises(labels), matches |-> matches, future_only |-> future_only,
              future_matches |-> IF loc_raises(labels) THEN << >> ELSE labels]
        ELSE [raises |-> FALSE, matches |-> matches, future_only |-> future_only,
              future_matches |-> IF future_only # << >>
                                 THEN groupby_idxmin(df, future_only) ELSE << >>]

\* a bucket that lists each unmapped operator name once
RECURSIVE UnmappedLoopUnique(_)
UnmappedLoopUnique(pairs) ==
    IF pairs = << >> THEN << >>
    ELSE LET rest == UnmappedLoopUnique(Tail(pairs))
         IN  (IF Head(pairs)[2] = << >> /\ \A k \in 1..Len(rest) : rest[k] # Head(pairs)[1]
              THEN <<Head(pairs)[1]>> ELSE << >>) \o rest

\* lines 306-313
RECURSIVE UnmappedLoop(_)
UnmappedLoop(pairs) ==
    IF pairs = << >> THEN << >>
    ELSE (IF Head(pairs)[2] = << >> THEN <<Head(pairs)[1]>> ELSE << >>)
         \o UnmappedLoop(Tail(pairs))

\* a sort with the latest date first
SortedByDateDescending(df, sel) ==
    { s \in [1..Len(sel) -> {sel[k] : k \in 1..Len(sel)}] :
        /\ \A a, b \in 1..Len(sel) : a # b => s[a] # s[b]
        /\ \A a \in 1..(Len(sel) - 1) :
              df[s[a]].GA_date.day >= df[s[a + 1]].GA_date.day }

\* the results sort_values('GA date') may give: the sort is not stable, so
\* rows with equal dates come in any order
SortedByDate(df, sel) ==
    { s \in [1..Len(sel) -> {sel[k] : k \in 1..Len(sel)}] :
        /\ \A a, b \in 1..Len(sel) : a # b => s[a] # s[b]
        /\ \A a \in 1..(Len(sel) - 1) :
              df[s[a]].GA_date.day <= df[s[a + 1]].GA_date.day }

\* DataFrame.head(n)
head(s, n) == SubSeq(s, 1, IF Len(s) < n THEN Len(s) ELSE n)

RECURSIVE SumFound(_)
SumFound(entries) ==
    IF entries = << >> THEN 0 ELSE Len(Head(entries)[3]) + SumFound(Tail(entries))

(***************************************************************************)
(* State                                                                   *)
(***************************************************************************)
VARIABLES
    csv_file, source_file, reference_file, show_all, no_version_filter,
    pc, df, version_map, lines, i, skipped, items,
    product_groups, gi,
    all_matches, matches, future_only, future_matches,
    operators_with_answers, operators_without_answers,
    products_with_releases, products_without_releases,
    unmapped_operators, ri, report, summary

inputs == <<csv_file, source_file, reference_file, show_all, no_version_filter>>
loaded == <<df, version_map, lines, i, skipped, items>>
locals == <<all_matches, matches, future_only, future_matches>>
tallies == <<operators_with_answers, operators_without_answers,
             products_with_releases, products_without_releases>>
output == <<unmapped_operators, ri, report, summary>>
vars == <<inputs, pc, loaded, product_groups, gi, locals, tallies, output>>

\* bound on the size of the input: lines of the source file plus rows of
\* the table
MaxInput == 4

SourceLines ==
    { <<"O", "p", "e", "r", "a", "t", "o", "r", "\t", "P", "r", "o", "d", "u", "c", "t">>,
      <<"1", ".", " ", "q", "o", "\t", "R", "e", "d", " ", "H", "a", "t", " ", "Q", "u", "a", "y">>,
      <<"q", "b", "\t", "R", "e", "d", " ", "H", "a", "t", " ", "Q", "u", "a", "y", "\t",
        "q", "u", "a", "y", " ", "3", ".", "1", "5">>,
      <<"l", "s", "o">>,
      <<"2", ".", " ", "q", "c", "\t", "Q", "u", "a", "y">> }

ReferenceFiles ==
    { NoFile,
      File(<< <<"O", "C", "P", " ", "4", ".", "2", "0">>, <<"o", "d", "f">>,
              <<"f", "o", "o", " ", "1", ".", "0">>,
              <<"q", "u", "a", "y", " ", "3", ".", "1", "5">> >>) }

NoCsv == [exists |-> FALSE, rows |-> << >>]
Csv(rows) == [exists |-> TRUE, rows |-> rows]

\* the command lines: --no-version-filter is tried with a reference file
\* present
Configs ==
    { c \in [show_all : BOOLEAN, no_version_filter : BOOLEAN,
             reference_file : ReferenceFiles] :
        c.no_version_filter => c.reference_file.exists }

\* <<source file, csv file>> pairs within the bound; a missing file counts
\* as empty
InputPairs ==
    UNION { { <<src, csv>> :
                src \in { File(ls) : ls \in [1..k -> SourceLines] }
                         \cup (IF k = 0 THEN {NoFile} ELSE {}),
                csv \in { Csv(t) : t \in Tables(MaxInput - k) } \cup {NoCsv} } :
            k \in 0..MaxInput }

Start ==
    /\ pc = "load_csv"
    /\ df = << >> /\ version_map = << >> /\ lines = << >> /\ i = 0
    /\ skipped = {} /\ items = << >>
    /\ product_groups = << >> /\ gi = 1
    /\ all_matches = << >> /\ matches = << >>
    /\ future_only = << >> /\ future_matches = << >>
    /\ operators_with_answers = << >> /\ operators_without_answers = << >>
    /\ products_with_releases = << >> /\ products_without_releases = << >>
    /\ unmapped_operators = << >> /\ ri = 1 /\ report = << >>
    /\ summary = << >>

Init ==
    /\ \E pair \in InputPairs, c \in Configs :
          /\ source_file = pair[1]
          /\ csv_file = pair[2]
          /\ show_all = c.show_all
          /\ no_version_filter = c.no_version_filter
          /\ reference_file = c.reference_file
    /\ Start

\* bound on the lines of the source file when the normalizer is explored
MaxNormLines == 3

\* lines for the normalizer: a header, a numbered line whose operator starts
\* with "Operator", a blank line, empty product, empty operator, empty
\* release name, padded fields, a single field
NormLines ==
    { <<"O", "p", "e", "r", "a", "t", "o", "r", "\t", "P", "r", "o", "d", "u", "c", "t", "\t",
        "R", "e", "l", "e", "a", "s", "e">>,
      <<"1", ".", " ", "O", "p", "e", "r", "a", "t", "o", "r", " ", "S", "D", "K", "\t",
        "Q", "u", "a", "y">>,
      <<" ">>,
      <<"q", "d", "\t", "\t", "Q", "u", "a", "y", " ", "3", ".", "1", "5">>,
      <<"3", ".", " ", "\t", "Q", "u", "a", "y">>,
      <<"q", "e", "\t", "Q", "u", "a", "y", "\t", "\t", "x">>,
      <<" ", " ", "4", ".", " ", " ", "q", "f", " ", "\t", " ", "Q", "u", "a", "y", " ", "\t">>,
      <<"l", "s", "o">> }

NormSources == { NoFile } \cup { File(ls) : ls \in SeqsUpTo(NormLines, MaxNormLines) }

NormCsvs == { NoCsv, Csv(<<MasterTable[3]>>), Csv(<<MasterTable[7]>>) }

\* the normalizer on lines of every shape, before a small table
InitNorm ==
    /\ source_file \in NormSources
    /\ csv_file \in NormCsvs
    /\ show_all \in BOOLEAN
    /\ no_version_filter \in BOOLEAN
    /\ reference_file = File(<< <<"q", "u", "a", "y", " ", "3", ".", "1", "5">> >>)
    /\ Start

(***************************************************************************)
(* main                                                                    *)
(***************************************************************************)
\* lines 421-423
LoadCsvData ==
    /\ pc = "load_csv"
    /\ df' = csv_file.rows
    /\ pc' = IF csv_file.exists THEN "load_reference" ELSE "returned"
    /\ UNCHANGED <<inputs, version_map, lines, i, skipped, items, product_groups, gi,
                   locals, tallies, output>>

\* lines 425-427
LoadReferenceVersions ==
    /\ pc = "load_reference"
    /\ ~no_version_filter
    /\ version_map' = load_reference_versions(reference_file)
    /\ pc' = "load_items"
    /\ UNCHANGED <<inputs, df, lines, i, skipped, items, product_groups, gi,
                   locals, tallies, output>>

NoVersionFilter ==
    /\ pc = "load_reference"
    /\ no_version_filter
    /\ pc' = "load_items"
    /\ UNCHANGED <<inputs, loaded, product_groups, gi, locals, tallies, output>>

\* load_search_items, lines 132-137
OpenSource ==
    /\ pc = "load_items"
    /\ source_file.exists
    /\ lines' = StrippedLines(source_file)
    /\ i' = 0
    /\ pc' = "read_lines"
    /\ UNCHANGED <<inputs, df, version_map, skipped, items, product_groups, gi,
                   locals, tallies, output>>

SourceMissing ==
    /\ pc = "load_items"
    /\ ~source_file.exists
    /\ pc' = "returned"
    /\ UNCHANGED <<inputs, loaded, product_groups, gi, locals, tallies, output>>

\* lines 141-142
SkipHeader ==
    /\ pc = "read_lines"
    /\ i < Len(lines)
    /\ IsHeader(i, lines[i + 1])
    /\ skipped' = skipped \cup {i}
    /\ i' = i + 1
    /\ UNCHANGED <<inputs, pc, df, version_map, lines, items, product_groups, gi,
                   locals, tallies, output>>

\* lines 144-160
ReadLine ==
    /\ pc = "read_lines"
    /\ i < Len(lines)
    /\ ~IsHeader(i, lines[i + 1])
    /\ items' = items \o ParseLine(lines[i + 1])
    /\ i' = i + 1
    /\ UNCHANGED <<inputs, pc, df, version_map, lines, skipped, product_groups, gi,
                   locals, tallies, output>>

\* lines 163 and 429-431
ItemsLoaded ==
    /\ pc = "read_lines"
    /\ i = Len(lines)
    /\ pc' = IF items = << >> THEN "returned" ELSE "group"
    /\ UNCHANGED <<inputs, loaded, product_groups, gi, locals, tallies, output>>

\* lines 236-254
GroupItems ==
    /\ pc = "group"
    /\ product_groups' = GroupLoop(items, << >>)
    /\ gi' = 1
    /\ pc' = "process"
    /\ UNCHANGED <<inputs, loaded, locals, tallies, output>>

\* lines 256-264: the searches of one product group
MatchGroup ==
    /\ pc = "process"
    /\ gi <= Len(product_groups)
    /\ all_matches' = MatchLoop(df, product_groups[gi][1], product_groups[gi][2], << >>)
    /\ pc' = "filter"
    /\ UNCHANGED <<inputs, loaded, product_groups, gi, matches, future_only, future_matches,
                   tallies, output>>

\* lines 266-303, the rest of an iteration that completes
ProcessGroup ==
    /\ pc = "filter"
    /\ LET product == product_groups[gi][1]
           operators == OperatorsOf(product_groups[gi][2])
           r == FilterGroup(df, product, all_matches, version_map, show_all, future_only)
       IN  /\ ~r.raises
           /\ matches' = r.matches
           /\ future_only' = r.future_only
           /\ future_matches' = r.future_matches
           /\ IF r.future_matches # << >>
              THEN /\ products_with_releases' =
                        Append(products_with_releases, <<product, operators, r.future_matches>>)
                   /\ operators_with_answers' = operators_with_answers \o operators
                   /\ UNCHANGED <<products_without_releases, operators_without_answers>>
              ELSE /\ products_without_releases' =
                        Append(products_without_releases, <<product, operators>>)
                   /\ operators_without_answers' = operators_without_answers \o operators
                   /\ UNCHANGED <<products_with_releases, operators_with_answers>>
    /\ gi' = gi + 1
    /\ pc' = "process"
    /\ UNCHANGED <<inputs, loaded, product_groups, all_matches, output>>

\* lines 277 and 281: an exception leaves format_results_by_product and main
ProcessGroupRaises ==
    /\ pc = "filter"
    /\ LET r == FilterGroup(df, product_groups[gi][1], all_matches, version_map, show_all,
                            future_only)
       IN  /\ r.raises
           /\ matches' = r.matches
    /\ pc' = "aborted"
    /\ UNCHANGED <<inputs, loaded, product_groups, gi, all_matches, future_only,
                   future_matches, tallies, output>>

\* lines 306-314
CollectUnmapped ==
    /\ pc = "process"
    /\ gi > Len(product_groups)
    /\ unmapped_operators' = UnmappedLoop(items)
    /\ operators_without_answers' = operators_without_answers \o UnmappedLoop(items)
    /\ ri' = 1
    /\ pc' = "report"
    /\ UNCHANGED <<inputs, loaded, product_groups, gi, locals, operators_with_answers,
                   products_with_releases, products_without_releases, report, summary>>

\* lines 324-348, one iteration
ReportProduct ==
    /\ pc = "report"
    /\ ri <= Len(products_with_releases)
    /\ LET matches_first == products_with_releases[ri][3]
       IN  \E matches_sorted \in SortedByDate(df, matches_first) :
              report' = Append(report,
                               [product |-> products_with_releases[ri][1],
                                operators |-> products_with_releases[ri][2],
                                found |-> Len(matches_first),
                                closest_2_releases |-> head(matches_sorted, 2)])
    /\ ri' = ri + 1
    /\ UNCHANGED <<inputs, pc, loaded, product_groups, gi, locals, tallies,
                   unmapped_operators, summary>>

\* lines 375-394
Summary ==
    /\ pc = "report"
    /\ ri > Len(products_with_releases)
    /\ summary' = << [products_with_releases |-> Len(products_with_releases),
                      products_with_no_releases |-> Len(products_without_releases),
                      unmapped_operators |-> Len(unmapped_operators),
                      total_releases_found |-> SumFound(products_with_releases),
                      total_products_analyzed |-> Len(product_groups),
                      operators_with_releases |-> Len(operators_with_answers),
                      operators_without_releases |-> Len(operators_without_answers),
                      total_operators_analyzed |->
                          Len(operators_with_answers) + Len(operators_without_answers),
                      breakdown |-> [k \in 1..Len(product_groups) |->
                                       <<product_groups[k][1], Len(product_groups[k][2])>>]] >>
    /\ pc' = "done"
    /\ UNCHANGED <<inputs, loaded, product_groups, gi, locals, tallies,
                   unmapped_operators, ri, report>>

Next ==
    \/ LoadCsvData
    \/ LoadReferenceVersions
    \/ NoVersionFilter
    \/ OpenSource
    \/ SourceMissing
    \/ SkipHeader
    \/ ReadLine
    \/ ItemsLoaded
    \/ GroupItems
    \/ MatchGroup
    \/ ProcessGroup
    \/ ProcessGroupRaises
    \/ CollectUnmapped
    \/ ReportProduct
    \/ Summary

Spec == Init /\ [][Next]_vars

SpecNorm == InitNorm /\ [][Next]_vars

(***************************************************************************)
(* Properties                                                              *)
(***************************************************************************)
Grouped == pc \in {"process", "filter", "report", "done", "aborted"}
Collected == pc \in {"report", "done"}

Products(entries) == [k \in 1..Len(entries) |-> entries[k][1]]

ItemProducts == { items[k][2] : k \in 1..Len(items) }

\* index in items of the first item of a product
FirstIndex(product) ==
    CHOOSE k \in 1..Len(items) :
        items[k][2] = product /\ \A j \in 1..(k - 1) : items[j][2] # product

InFirstAppearanceOrder(products) ==
    /\ \A k \in 1..Len(products) : products[k] # << >> /\ products[k] \in ItemProducts
    /\ \A a, b \in 1..Len(products) :
          a < b => FirstIndex(products[a]) < FirstIndex(products[b])

\* C1: the product groups, the resolved list, the unresolved list and the
\* per-product breakdown list the products in the order in which each
\* non-empty product first appears in the search items.
C1_OrderPreserved ==
    Grouped =>
        /\ { product_groups[k][1] : k \in 1..Len(product_groups) } = ItemProducts \ {<< >>}
        /\ InFirstAppearanceOrder(Products(product_groups))
        /\ InFirstAppearanceOrder(Products(products_with_releases))
        /\ InFirstAppearanceOrder(Products(products_without_releases))
        /\ pc = "done" =>
              Products(summary[1].breakdown) = Products(product_groups)

\* two products resolved, the first of them named again by a later item
C1_Witness ==
    /\ pc = "done"
    /\ Len(products_with_releases) >= 2
    /\ \E k \in 2..Len(items) :
          /\ items[k][2] = products_with_releases[1][1]
          /\ \E j \in 1..(k - 1) : items[j][2] = products_with_releases[2][1]

\* C2: in future-only mode every record of every resolved product has a GA
\* date strictly after today.
C2_FutureOnly ==
    ~show_all =>
        \A k \in 1..Len(products_with_releases) :
            \A n \in 1..Len(products_with_releases[k][3]) :
                LET row == df[products_with_releases[k][3][n]]
                IN  row.GA_date.kind = "date" /\ row.GA_date.day > today

\* a product resolved in future-only mode although one of its matching
\* rows is dated today and another one is dated in the past
C2_Witness ==
    /\ ~show_all
    /\ pc = "process"
    /\ future_matches # << >>
    /\ \E k \in 1..Len(matches) : df[matches[k]].GA_date = DateCell(today)
    /\ \E k \in 1..Len(matches) :
          df[matches[k]].GA_date.kind = "date" /\ df[matches[k]].GA_date.day < today

NoSharedRelease(df_, sel) ==
    \A a, b \in 1..Len(sel) : a # b => df_[sel[a]].Release # df_[sel[b]].Release

\* C3: in both modes no two records kept for a product, and no two records
\* shown for it, have the same Release.
C3_OnePerRelease ==
    /\ \A k \in 1..Len(products_with_releases) :
          NoSharedRelease(df, products_with_releases[k][3])
    /\ \A k \in 1..Len(report) : NoSharedRelease(df, report[k].closest_2_releases)

\* a product is resolved from rows two of which share a Release and both
\* pass the temporal filter
C3_Witness ==
    /\ pc = "process"
    /\ future_matches # << >>
    /\ \E a, b \in 1..Len(matches) :
          /\ a # b
          /\ df[matches[a]].Release = df[matches[b]].Release
          /\ \A c \in {a, b} :
                /\ df[matches[c]].GA_date.kind = "date"
                /\ show_all \/ df[matches[c]].GA_date.day > today

UnmappedIndexes == { k \in 1..Len(items) : items[k][2] = << >> }

\* the n-th smallest element of a set of numbers
Nth(S, n) == CHOOSE k \in S : Cardinality({ j \in S : j <= k }) = n

\* C4: the unmapped bucket holds, in input order, one entry for every item
\* with an empty product and nothing else.
C4_UnmappedComplete ==
    Collected =>
        /\ Len(unmapped_operators) = Cardinality(UnmappedIndexes)
        /\ \A n \in 1..Len(unmapped_operators) :
              unmapped_operators[n] = items[Nth(UnmappedIndexes, n)][1]

\* two unmapped items of one operator name around a mapped item
C4_Witness ==
    /\ pc = "done"
    /\ \E a, b, c \in 1..Len(items) :
          /\ a < b /\ b < c
          /\ items[a][2] = << >> /\ items[c][2] = << >> /\ items[b][2] # << >>
          /\ items[a][1] = items[c][1]
    /\ Len(unmapped_operators) = 2

Count(s, x) == Cardinality({ k \in 1..Len(s) : s[k] = x })

ResolvedProducts == { products_with_releases[k][1] : k \in 1..Len(products_with_releases) }
UnresolvedProducts ==
    { products_without_releases[k][1] : k \in 1..Len(products_without_releases) }

\* a product group has gone through the filters
GroupProcessed == pc = "aborted" \/ (pc \in {"process", "report", "done"} /\ gi > 1)

\* the product of the group the locals belong to
LastProduct == product_groups[IF pc = "aborted" THEN gi ELSE gi - 1][1]

\* C5: an operator entry is counted with an answer iff its product is
\* resolved, that is, has a non-empty final record set; all other entries,
\* those of unresolved products and the unmapped ones, are counted without
\* an answer; every item is counted once.
C5_AnswerCounts ==
    /\ (pc = "process" /\ gi > 1) =>
          /\ future_matches # << >> <=> LastProduct \in ResolvedProducts
          /\ future_matches = << >> <=> LastProduct \in UnresolvedProducts
    /\ Collected =>
        /\ \A k \in 1..Len(products_with_releases) : products_with_releases[k][3] # << >>
        /\ ResolvedProducts \cap UnresolvedProducts = {}
        /\ ResolvedProducts \cup UnresolvedProducts = ItemProducts \ {<< >>}
        /\ \A op \in { items[k][1] : k \in 1..Len(items) } :
              /\ Count(operators_with_answers, op) =
                    Cardinality({ k \in 1..Len(items) :
                                    items[k][1] = op /\ items[k][2] \in ResolvedProducts })
              /\ Count(operators_without_answers, op) =
                    Cardinality({ k \in 1..Len(items) :
                                    items[k][1] = op /\ items[k][2] \notin ResolvedProducts })
        /\ Len(operators_with_answers) + Len(operators_without_answers) = Len(items)
        /\ pc = "done" =>
              /\ summary[1].operators_with_releases = Len(operators_with_answers)
              /\ summary[1].operators_without_releases = Len(operators_without_answers)
              /\ summary[1].total_operators_analyzed = Len(items)

\* a run with a resolved product, an unresolved product and an unmapped
\* operator
C5_Witness ==
    /\ pc = "done"
    /\ products_with_releases # << >>
    /\ products_without_releases # << >>
    /\ unmapped_operators # << >>

\* C6: a record with a missing or unparsable GA date never aborts the run.
C6_BadDateNotFatal == pc # "aborted"

Elements(s) == { s[k] : k \in 1..Len(s) }

Day(label) == df[label].GA_date.day

\* C7: for every resolved product the report shows the first min(2, n) of
\* its n records in ascending GA date order and states n as the number
\* found.
C7_ClosestTwo ==
    \A k \in 1..Len(report) :
        LET kept == products_with_releases[k][3]
            shown == report[k].closest_2_releases
        IN  /\ report[k].product = products_with_releases[k][1]
            /\ report[k].found = Len(kept)
            /\ Len(shown) = IF Len(kept) < 2 THEN Len(kept) ELSE 2
            /\ Elements(shown) \subseteq Elements(kept)
            /\ \A a, b \in 1..Len(shown) :
                  a < b => shown[a] # shown[b] /\ Day(shown[a]) <= Day(shown[b])
            /\ \A rest \in Elements(kept) \ Elements(shown) :
                  \A a \in 1..Len(shown) : Day(shown[a]) <= Day(rest)

\* a product with three records of which the report leaves out a later one
C7_Witness ==
    \E k \in 1..Len(report) :
        /\ report[k].found >= 3
        /\ Len(report[k].closest_2_releases) = 2
        /\ \E rest \in Elements(products_with_releases[k][3]) :
              Day(rest) > Day(report[k].closest_2_releases[2])

HasTokenCI(text, token) ==
    \E off \in 0..(Len(text) - Len(token)) :
        \A j \in 1..Len(token) : LowerOf[text[off + j]] = LowerOf[token[j]]

IndexIn(s, x) == CHOOSE k \in 1..Len(s) : s[k] = x

\* C8: with a version constraint for the product of the group, the version
\* filter passes on exactly the matched records whose Release contains the
\* version token, compared without regard to case; without a constraint for
\* that product, and when version filtering is disabled, it passes on the
\* match set unchanged.
C8_VersionFilter ==
    GroupProcessed =>
        /\ IF all_matches # << >> /\ LastProduct \in DOMAIN version_map
           THEN /\ \A l \in Elements(all_matches) :
                      l \in Elements(matches) <=>
                         HasTokenCI(astype_str(df[l].Release), version_map[LastProduct])
                /\ Elements(matches) \subseteq Elements(all_matches)
                /\ \A a, b \in 1..Len(matches) :
                      a < b => IndexIn(all_matches, matches[a]) < IndexIn(all_matches, matches[b])
           ELSE matches = all_matches
        /\ no_version_filter => version_map = << >> /\ matches = all_matches

\* the constraint of the product removes one matched record and keeps
\* another
C8_Witness ==
    /\ GroupProcessed
    /\ LastProduct \in DOMAIN version_map
    /\ matches # << >>
    /\ Len(matches) < Len(all_matches)

\* a product without a constraint is matched while the map holds a
\* constraint for another product
C8_WitnessNoEntry ==
    /\ GroupProcessed
    /\ version_map # << >>
    /\ LastProduct \notin DOMAIN version_map
    /\ all_matches # << >>

\* the operator field of a line after the tab split and the removal of the
\* enumeration prefix
OperatorToken(line) == StripEnumPrefix(strip(SplitTab(line, << >>)[1]))

\* the first line of the source file that is not blank, trimmed
FirstLine ==
    strip(source_file.lines[Nth({ k \in 1..Len(source_file.lines) :
                                     strip(source_file.lines[k]) # << >> }, 1)])

\* C9 as stated: the first non-blank line is discarded as a header iff its
\* operator token equals or starts with "Operator"; no other line is
\* discarded as a header.
C9_HeaderByToken ==
    i >= 1 =>
        /\ skipped \subseteq {0}
        /\ 0 \in skipped <=> startswith(OperatorToken(FirstLine), Operator)

\* C9 amended: the first non-blank line is discarded as a header iff the
\* trimmed line itself starts with "Operator"; the operator token of a
\* discarded line then starts with "Operator" too, but a first line whose
\* token starts with "Operator" only once its enumeration prefix is removed
\* is kept; no other line is discarded as a header.
C9_HeaderByLine ==
    /\ i = 0 => skipped = {}
    /\ i >= 1 =>
          /\ skipped \subseteq {0}
          /\ 0 \in skipped <=> startswith(FirstLine, Operator)
          /\ 0 \in skipped => startswith(OperatorToken(FirstLine), Operator)

\* a header discarded after a blank line, and a later line of the same text
\* kept as data
C9_Witness ==
    /\ pc = "read_lines" /\ i = Len(lines)
    /\ skipped = {0}
    /\ strip(source_file.lines[1]) = << >>
    /\ \E k \in 2..Len(lines) : startswith(lines[k], Operator)
    /\ items # << >>

\* a numbered first line whose operator starts with "Operator" is kept
C9_WitnessNumbered ==
    /\ i >= 1
    /\ skipped = {}
    /\ startswith(OperatorToken(FirstLine), Operator)
    /\ items # << >> /\ items[1][1] = OperatorToken(FirstLine)

\* positions in lines of the lines that are not the header and have an
\* operator
DataLines ==
    { k \in 1..Len(lines) : (k - 1) \notin skipped /\ OperatorToken(lines[k]) # << >> }

\* C10: every line that is not the header and has a non-empty operator
\* yields an item, in input order; a line of one field, or with an empty
\* product field, yields (operator, "", "").
C10_EveryOperatorEmitted ==
    (pc \notin {"load_csv", "load_reference", "load_items"} /\ i = Len(lines)) =>
        /\ Len(items) = Cardinality(DataLines)
        /\ \A n \in 1..Len(items) :
              LET line == lines[Nth(DataLines, n)]
                  parts == SplitTab(line, << >>)
              IN  /\ items[n][1] = OperatorToken(line)
                  /\ (Len(parts) = 1 \/ strip(parts[2]) = << >>) =>
                        items[n] = <<OperatorToken(line), << >>, << >> >>

\* the records that reach the deduplication: those left by the version
\* filter in show-all mode, those left by the temporal filter otherwise
Survivors ==
    IF show_all THEN matches
    ELSE IF matches = << >> THEN << >> ELSE future_only

Dated(label) == df[label].GA_date.kind = "date"

\* retained holds, for every Release among the survivors, exactly one
\* survivor, the one with the earliest GA date and, among those of that
\* date, the one first in the frame
OneEarliestPerRelease(retained) ==
    /\ Elements(retained) \subseteq Elements(Survivors)
    /\ \A rel \in { df[l].Release : l \in Elements(Survivors) } :
          LET group == { l \in Elements(Survivors) : df[l].Release = rel }
              kept == { k \in 1..Len(retained) : df[retained[k]].Release = rel }
          IN  /\ Cardinality(kept) = 1
              /\ \A k \in kept : \A other \in group :
                    Dated(other) =>
                       /\ Dated(retained[k])
                       /\ \/ Day(retained[k]) < Day(other)
                          \/ /\ Day(retained[k]) = Day(other)
                             /\ IndexIn(Survivors, retained[k]) <= IndexIn(Survivors, other)

\* C11: the deduplication works on the records left by the version and
\* temporal filters and retains, for each distinct Release among them, the
\* one with the earliest GA date, the first-seen one among equals; in
\* future-only mode a product with a future-dated record is resolved.  A
\* deduplication that raises retains nothing.
C11_DedupEarliest ==
    /\ (pc = "process" /\ gi > 1) =>
          /\ OneEarliestPerRelease(future_matches)
          /\ (~show_all /\ \E k \in 1..Len(matches) :
                              Dated(matches[k]) /\ Day(matches[k]) > today)
                => LastProduct \in ResolvedProducts
    /\ (pc = "aborted" /\ ~to_datetime_raises(df, matches)) =>
          OneEarliestPerRelease(<< >>)

\* the part of C11 about the groups whose deduplication completes
C11_DedupEarliestWhenCompleted ==
    (pc = "process" /\ gi > 1) =>
        /\ OneEarliestPerRelease(future_matches)
        /\ (~show_all /\ \E k \in 1..Len(matches) :
                            Dated(matches[k]) /\ Day(matches[k]) > today)
              => LastProduct \in ResolvedProducts

\* in future-only mode a release with a past row and two future rows, the
\* later of them seen first, is resolved
C11_Witness ==
    /\ pc = "process" /\ gi > 1
    /\ ~show_all
    /\ future_matches # << >>
    /\ \E k \in 1..Len(matches) :
          /\ Dated(matches[k]) /\ Day(matches[k]) < today
          /\ df[matches[k]].Release = df[future_matches[1]].Release
    /\ \E a, b \in 1..Len(future_only) :
          /\ a < b
          /\ df[future_only[a]].Release = df[future_only[b]].Release
          /\ Day(future_only[a]) > Day(future_only[b])

\* two survivors of one Release share the earliest date
C11_WitnessTie ==
    /\ pc = "process" /\ gi > 1
    /\ future_matches # << >>
    /\ \E a, b \in 1..Len(Survivors) :
          /\ a < b
          /\ df[Survivors[a]].Release = df[Survivors[b]].Release
          /\ Dated(Survivors[a]) /\ Dated(Survivors[b])
          /\ Day(Survivors[a]) = Day(Survivors[b])
          /\ future_matches[1] = Survivors[a]

====
